---- MODULE Spec2Model ----
(***************************************************************************)
(* Model of input_parser::Parser (src/src/parser.cpp,                      *)
(* src/include/input_parser/parser.hpp) over the std::any based            *)
(* BaseOption (src/include/input_parser/local_type_traits.hpp,             *)
(* src/src/option/base_option.cpp).                                        *)
(*                                                                         *)
(* A std::any is the record [type, v]: type names the held C++ type and v  *)
(* is the held value written as a sequence of strings.  A call outcome is  *)
(* the record [ok, err, msg, val]: err names the exception class thrown.   *)
(***************************************************************************)
EXTENDS Integers, Sequences, FiniteSets, TLC

\* ------------------------------ Bounds -------------------------------- \*

\* Largest number of tokens after the program name in an argument vector.
MaxArgs == 3
\* Largest number of options a parser holds.
MaxOptions == 2
\* Largest number of constraints added to one option.
MaxConstraints == 2

\* ------------------------------ std::any ------------------------------ \*

NoAny == [type |-> "none", v |-> <<>>]
AnyBool(b) == [type |-> "bool", v |-> <<IF b THEN "true" ELSE "false">>]
AnyString(s) == [type |-> "string", v |-> <<s>>]
AnyStrings(seq) == [type |-> "vector<string>", v |-> seq]
AnyInt(s) == [type |-> "int", v |-> <<s>>]

has_value(a) == a.type # "none"

\* ------------------------------ Outcomes ------------------------------ \*

Ok(val) == [ok |-> TRUE, err |-> "", msg |-> "", val |-> val]
Throw(err, msg) == [ok |-> FALSE, err |-> err, msg |-> msg, val |-> NoAny]

\* std::any_cast<T>(a): the held value when a holds a T, std::bad_any_cast
\* otherwise (also for an empty any).
any_cast(T, a) ==
  IF a.type = T THEN Ok(a) ELSE Throw("std::bad_any_cast", "bad any_cast")

\* --------------------------- Transformations --------------------------- \*

\* FlagOption::toInt: value ? 1 : 0, behind the any_cast<bool> of to<T>.
FlagToInt(a) ==
  IF ~any_cast("bool", a).ok THEN any_cast("bool", a)
  ELSE Ok(AnyInt(IF a.v[1] = "true" THEN "1" ELSE "0"))

\* README greeting example: to<std::string>(value ? "Hi!" : "Bye!").
FlagToGreeting(a) ==
  IF ~any_cast("bool", a).ok THEN any_cast("bool", a)
  ELSE Ok(AnyString(IF a.v[1] = "true" THEN "Hi!" ELSE "Bye!"))

\* An int is held as its decimal numeral.
Numerals ==
  <<"0", "1", "2", "3", "4", "5", "6", "7", "8", "9", "10", "11", "12",
    "13", "14", "15", "16">>
Numeral(n) == Numerals[n + 1]
IsNumeral(s) == \E n \in DOMAIN Numerals : Numerals[n] = s
Number(s) == (CHOOSE n \in DOMAIN Numerals : Numerals[n] = s) - 1

\* SingleOption::toInt: std::stoi(value) behind the any_cast<std::string> of
\* SingleOption::to<T>; std::stoi throws std::invalid_argument on a string
\* that holds no number.
SingleToInt(a) ==
  IF ~any_cast("string", a).ok THEN any_cast("string", a)
  ELSE IF IsNumeral(a.v[1]) THEN Ok(AnyInt(a.v[1]))
  ELSE Throw("std::invalid_argument", "stoi")

\* The transformation of the unit test: std::any_cast<int>(value) * 2.
Doubles(a) ==
  IF ~any_cast("int", a).ok THEN any_cast("int", a)
  ELSE Ok(AnyInt(Numeral(2 * Number(a.v[1]))))

\* The std::function held in transformation_, called on a std::any.
CallTransformation(t, a) ==
  CASE t = "toInt" -> FlagToInt(a)
    [] t = "toGreeting" -> FlagToGreeting(a)
    [] t = "stoi" -> SingleToInt(a)
    [] t = "doubles" -> Doubles(a)
    [] OTHER -> Ok(a)

applyTransformation(opt, a) ==
  IF opt.transformation_ = "nullptr" THEN Ok(a)
  ELSE CallTransformation(opt.transformation_, a)

\* ----------------------------- Constraints ----------------------------- \*

\* The user predicates handed to addConstraint<T>: "notB" is value != "b" on
\* a std::string, "lt10" is value < 10 and "isZero" is value == 0 on an int.
ConstraintType(call) ==
  CASE call \in {"lt10", "isZero"} -> "int" [] OTHER -> "string"

Predicate(call, a) ==
  CASE call = "notB" -> a.v[1] # "b"
    [] call = "lt10" -> Number(a.v[1]) < 10
    [] call = "isZero" -> Number(a.v[1]) = 0
    [] OTHER -> TRUE

\* Constraint::call on the lambda built by addConstraint<T>:
\* any_cast<T>(value) first, then the user predicate.
ConstraintCall(c, a) ==
  IF ~any_cast(ConstraintType(c.call_), a).ok
  THEN any_cast(ConstraintType(c.call_), a)
  ELSE Ok(AnyBool(Predicate(c.call_, a)))

\* CheckFrom that walks the constraints from the last one added.
RECURSIVE CheckFrom_Backwards(_, _, _)
CheckFrom_Backwards(cs, i, a) ==
  IF i > Len(cs) THEN Ok(NoAny)
  ELSE LET c == cs[Len(cs) + 1 - i]
           r == ConstraintCall(c, a)
       IN
    IF ~r.ok THEN r
    ELSE IF r.val.v[1] = "false"
      THEN Throw("ParsingError",
                 IF c.error_message_ = "" THEN "Constraint not satisfied."
                 ELSE c.error_message_)
      ELSE CheckFrom_Backwards(cs, i + 1, a)

\* The loop of BaseOption::checkConstraints from position i of constraints_.
RECURSIVE CheckFrom(_, _, _)
CheckFrom(cs, i, a) ==
  IF i > Len(cs) THEN Ok(NoAny)
  ELSE LET r == ConstraintCall(cs[i], a) IN
    IF ~r.ok THEN r
    ELSE IF r.val.v[1] = "false"
      THEN Throw("ParsingError",
                 IF cs[i].error_message_ = "" THEN "Constraint not satisfied."
                 ELSE cs[i].error_message_)
      ELSE CheckFrom(cs, i + 1, a)

checkConstraints(opt, a) == CheckFrom(opt.constraints_, 1, a)

\* ------------------------------- Options ------------------------------- \*

BaseOption(kind, names, argname) ==
  [kind |-> kind, names_ |-> names, description_ |-> "",
   required_ |-> TRUE, default_value_ |-> NoAny, value_ |-> NoAny,
   transformation_ |-> "nullptr", transform_before_check_ |-> FALSE,
   constraints_ |-> <<>>, argument_name_ |-> argname]

FlagOption(names) == BaseOption("flag", names, "")
SingleOption(names) == BaseOption("single", names, " value")
CompoundOption(names) == BaseOption("compound", names, " value1 value2 ...")
\* The BaseOption subclass of the unit tests: no kind, no argument name.
MockOption(names) == BaseOption("base", names, "")

beRequired(opt, required) == [opt EXCEPT !.required_ = required]

\* addDefaultValue that holds the default against the constraints and drops
\* one they reject.
addDefaultValue_Checked(opt, a) ==
  IF ~checkConstraints(opt, a).ok THEN opt
  ELSE beRequired([opt EXCEPT !.default_value_ = a], FALSE)

\* addDefaultValue that stores the default and leaves required_ alone.
addDefaultValue_KeepsRequired(opt, a) == [opt EXCEPT !.default_value_ = a]

addDefaultValue(opt, a) ==
  beRequired([opt EXCEPT !.default_value_ = a], FALSE)

addDescription(opt, d) == [opt EXCEPT !.description_ = d]

addConstraint(opt, call, msg) ==
  [opt EXCEPT !.constraints_ =
     Append(@, [call_ |-> call, error_message_ |-> msg])]

to(opt, t) == [opt EXCEPT !.transformation_ = t]

transformBeforeCheck(opt) == [opt EXCEPT !.transform_before_check_ = TRUE]

isFlag(opt) == opt.kind = "flag"
isSingle(opt) == opt.kind = "single"
isCompound(opt) == opt.kind = "compound"
isRequired(opt) == opt.required_
hasValue(opt) == has_value(opt.value_)
hasDefaultValue(opt) == has_value(opt.default_value_)

\* getDefaultValue that hands out the default as it is stored.
getDefaultValue_Untransformed(opt, T) ==
  IF ~hasDefaultValue(opt) THEN Throw("std::invalid_argument", "No default value")
  ELSE any_cast(T, opt.default_value_)

\* getDefaultValue without the hasDefaultValue test.
getDefaultValue_NoCheck(opt, T) ==
  LET r == applyTransformation(opt, opt.default_value_) IN
  IF ~r.ok THEN r ELSE any_cast(T, r.val)

\* BaseOption::getDefaultValue<T>
getDefaultValue(opt, T) ==
  IF ~hasDefaultValue(opt) THEN Throw("std::invalid_argument", "No default value")
  ELSE LET r == applyTransformation(opt, opt.default_value_) IN
    IF ~r.ok THEN r ELSE any_cast(T, r.val)

\* getValue that prefers the default value to the value.
getValue_DefaultFirst(opt, T) ==
  IF hasDefaultValue(opt) \/ ~hasValue(opt) THEN getDefaultValue(opt, T)
  ELSE any_cast(T, opt.value_)

\* BaseOption::getValue<T>
getValue(opt, T) ==
  IF ~hasValue(opt) THEN getDefaultValue(opt, T)
  ELSE any_cast(T, opt.value_)

\* setValue that, transforming before the check, stores the argument
\* instead of its transformation.
setValue_StoresArgument(opt, a) ==
  IF opt.transform_before_check_
  THEN LET r == applyTransformation(opt, a) IN
    IF ~r.ok THEN [opt |-> opt, out |-> r]
    ELSE [opt |-> [opt EXCEPT !.value_ = a],
          out |-> checkConstraints(opt, r.val)]
  ELSE LET c == checkConstraints(opt, a) IN
    IF ~c.ok THEN [opt |-> opt, out |-> c]
    ELSE LET r == applyTransformation(opt, a) IN
      IF ~r.ok THEN [opt |-> opt, out |-> r]
      ELSE [opt |-> [opt EXCEPT !.value_ = r.val], out |-> Ok(NoAny)]

\* setValue that checks the argument and then transforms it, whatever
\* transform_before_check_ says.
setValue_IgnoresFlag(opt, a) ==
  LET c == checkConstraints(opt, a) IN
  IF ~c.ok THEN [opt |-> opt, out |-> c]
  ELSE LET r == applyTransformation(opt, a) IN
    IF ~r.ok THEN [opt |-> opt, out |-> r]
    ELSE [opt |-> [opt EXCEPT !.value_ = r.val], out |-> Ok(NoAny)]

\* BaseOption::setValue: the option afterwards and the outcome of the call.
setValue(opt, a) ==
  IF opt.transform_before_check_
  THEN LET r == applyTransformation(opt, a) IN
    IF ~r.ok THEN [opt |-> opt, out |-> r]
    ELSE [opt |-> [opt EXCEPT !.value_ = r.val],
          out |-> checkConstraints(opt, r.val)]
  ELSE LET c == checkConstraints(opt, a) IN
    IF ~c.ok THEN [opt |-> opt, out |-> c]
    ELSE LET r == applyTransformation(opt, a) IN
      IF ~r.ok THEN [opt |-> opt, out |-> r]
      ELSE [opt |-> [opt EXCEPT !.value_ = r.val], out |-> Ok(NoAny)]

\* --------------------- Options handed to addOption --------------------- \*

HelpOption ==
  addDefaultValue(
    addDescription(FlagOption(<<"-h", "--help">>),
                   "Shows how to use the program."),
    AnyBool(FALSE))

Catalogue ==
  { FlagOption(<<"-f", "--flag">>),
    addDefaultValue(FlagOption(<<"-f", "--flag">>), AnyBool(TRUE)),
    addDefaultValue(FlagOption(<<"-f", "--flag">>), AnyBool(FALSE)),
    to(addDefaultValue(FlagOption(<<"-f", "--flag">>), AnyBool(FALSE)),
       "toGreeting"),
    to(addDefaultValue(FlagOption(<<"-f", "--flag">>), AnyBool(TRUE)),
       "toInt"),
    SingleOption(<<"-s">>),
    addConstraint(SingleOption(<<"-s">>), "notB", ""),
    addDefaultValue(SingleOption(<<"-s">>), AnyInt("4")),
    addDefaultValue(addConstraint(SingleOption(<<"-s">>), "notB", ""),
                    AnyString("b")),
    beRequired(SingleOption(<<"-s">>), FALSE),
    SingleOption(<<"-h">>),
    FlagOption(<<"-f", "-f">>),
    CompoundOption(<<"-c">>),
    CompoundOption(<<"-c", "--flag">>) }

\* The tokens an argument vector is made of.
Tokens == {"-h", "--help", "-f", "--flag", "-s", "-c", "a", "b"}

RECURSIVE SeqsUpTo(_, _)
SeqsUpTo(S, n) ==
  IF n = 0 THEN {<<>>}
  ELSE LET R == SeqsUpTo(S, n - 1) IN
    R \cup {Append(s, x) : s \in {r \in R : Len(r) = n - 1}, x \in S}

Argvs == {<<"prog">> \o s : s \in SeqsUpTo(Tokens, MaxArgs)}

\* -------------------------------- State -------------------------------- \*

VARIABLES
  options_,   \* Parser::options_: reference name -> option
  names_,     \* Parser::names_: name -> reference name
  argv,       \* the argument vector of the running parse (argv[1] is "prog")
  index,      \* the loop variable of Parser::parse (0-based, as in the code)
  pc,         \* "config", "scan", "missing", "done", "failed"
  result,     \* outcome of the last addOption / parse call
  before,     \* options_ as they were when parse was called
  theOption,  \* an option object on its own, outside any parser
  called,     \* the last call made on the option on its own: [op, arg]
  reparsed    \* the parse call running or returned repeats the one before

vars ==
  <<options_, names_, argv, index, pc, result, before, theOption, called,
    reparsed>>

\* A call and its argument.
Call(op, arg) == [op |-> op, arg |-> arg]

EmptyMap == [k \in {} |-> NoAny]

Init ==
  /\ options_ = EmptyMap
  /\ names_ = EmptyMap
  /\ argv = <<>>
  /\ index = 0
  /\ pc = "config"
  /\ result = Ok(NoAny)
  /\ before = EmptyMap
  /\ theOption = MockOption(<<"name">>)
  /\ called = Call("BaseOption", NoAny)
  /\ reparsed = FALSE

\* ------------------------------ Registry ------------------------------ \*

hasOption(name) == name \in DOMAIN names_

\* options_.at(names_.at(name)) throws std::out_of_range on a missing key.
LookupThrows(name) ==
  name \notin DOMAIN names_ \/ names_[name] \notin DOMAIN options_

getOption(name) == options_[names_[name]]

hasFlag(name) == hasOption(name) /\ isFlag(getOption(name))
hasSingle(name) == hasOption(name) /\ isSingle(getOption(name))
hasCompound(name) == hasOption(name) /\ isCompound(getOption(name))

\* RegisterNames with every name bound to itself instead of the reference
\* name.
RECURSIVE RegisterNames_Self(_, _, _)
RegisterNames_Self(nm, names, i) ==
  IF i > Len(names) THEN [names_ |-> nm, threw |-> FALSE]
  ELSE IF names[i] \in DOMAIN nm THEN [names_ |-> nm, threw |-> TRUE]
  ELSE RegisterNames_Self((names[i] :> names[i]) @@ nm, names, i + 1)

\* RegisterNames that looks for a clash on the reference name only.
RECURSIVE RegisterNames_FirstOnly(_, _, _)
RegisterNames_FirstOnly(nm, names, i) ==
  IF i > Len(names) THEN [names_ |-> nm, threw |-> FALSE]
  ELSE IF i = 1 /\ names[i] \in DOMAIN nm THEN [names_ |-> nm, threw |-> TRUE]
  ELSE RegisterNames_FirstOnly((names[i] :> names[1]) @@ nm, names, i + 1)

\* The loop of Parser::addOption over option.getNames(), from position i on
\* the map nm: the map it leaves and whether it threw.
RECURSIVE RegisterNames(_, _, _)
RegisterNames(nm, names, i) ==
  IF i > Len(names) THEN [names_ |-> nm, threw |-> FALSE]
  ELSE IF names[i] \in DOMAIN nm THEN [names_ |-> nm, threw |-> TRUE]
  ELSE RegisterNames((names[i] :> names[1]) @@ nm, names, i + 1)

\* Parser::addOption with the option the factory returns: the two maps as
\* the call leaves them and its outcome.  A throw leaves the loop with the
\* names registered so far.
addOption(option) ==
  LET r == RegisterNames(names_, option.names_, 1)
      reference_name == option.names_[1]
  IN IF r.threw
     THEN [names_ |-> r.names_, options_ |-> options_,
           out |-> Throw("std::invalid_argument", "Option already exists!")]
     ELSE [names_ |-> r.names_,
           options_ |-> IF reference_name \in DOMAIN options_ THEN options_
                        ELSE (reference_name :> option) @@ options_,
           out |-> Ok(NoAny)]

AddOption ==
  /\ pc = "config"
  /\ Cardinality(DOMAIN options_) < MaxOptions
  /\ \E option \in Catalogue :
       LET r == addOption(option) IN
       /\ names_' = r.names_
       /\ options_' = r.options_
       /\ result' = r.out
  /\ UNCHANGED <<argv, index, pc, before, theOption, called, reparsed>>

AddHelpOption ==
  /\ pc = "config"
  /\ Cardinality(DOMAIN options_) < MaxOptions
  /\ LET r == addOption(HelpOption) IN
     /\ names_' = r.names_
     /\ options_' = r.options_
     /\ result' = r.out
  /\ UNCHANGED <<argv, index, pc, before, theOption, called, reparsed>>

\* ParserGetValue without the hasOption test: the lookup itself throws.
ParserGetValue_NoCheck(name, T) ==
  IF LookupThrows(name) THEN Throw("std::out_of_range", "at")
  ELSE getValue(getOption(name), T)

\* Parser::getValue<T>(name)
ParserGetValue(name, T) ==
  IF ~hasOption(name)
  THEN Throw("ParsingError",
             "The option " \o name \o " was not assigned at the parser")
  ELSE IF LookupThrows(name) THEN Throw("std::out_of_range", "at")
  ELSE getValue(getOption(name), T)

\* The order in which usage() meets the keys S of options_.  The order of
\* an unordered_map is unspecified but the same for every iteration of an
\* unmodified container; usage() is rendered in one fixed order of the keys.
RECURSIVE Iteration(_)
Iteration(S) ==
  IF S = {} THEN <<>>
  ELSE LET key == CHOOSE k \in S : TRUE IN <<key>> \o Iteration(S \ {key})

\* The loop of Parser::usage() over options_, from position i of order.
RECURSIVE UsageFrom(_, _, _, _)
UsageFrom(order, i, text, description) ==
  IF i > Len(order) THEN text \o "\n\n" \o description \o "\n"
  ELSE LET option_name == order[i]
           opt == options_[option_name]
       IN UsageFrom(
            order, i + 1,
            text \o " " \o (IF isRequired(opt) THEN "<" ELSE "[") \o
              option_name \o opt.argument_name_ \o
              (IF isRequired(opt) THEN ">" ELSE "]"),
            IF opt.description_ # ""
            THEN description \o option_name \o " -> " \o
                   opt.description_ \o "\n"
            ELSE description)

\* Parser::usage()
usage == UsageFrom(Iteration(DOMAIN options_), 1, "Usage: ./exec_name", "")

\* -------------------------------- Parse -------------------------------- \*

argc == Len(argv)
\* argv[i] of the code (0-based).
Arg(i) == argv[i + 1]

Fail(out) ==
  /\ pc' = "failed"
  /\ result' = out

\* Parser::parse up to the loop: copies the arguments, index = 1.
Parse ==
  /\ pc = "config"
  /\ \E a \in Argvs : argv' = a
  /\ index' = 1
  /\ pc' = "scan"
  /\ result' = Ok(NoAny)
  /\ before' = options_
  /\ UNCHANGED <<options_, names_, theOption, called, reparsed>>

\* ParseInvalid that skips the token instead of failing.
ParseInvalid_Skips ==
  /\ pc = "scan" /\ index < argc
  /\ ~hasOption(Arg(index))
  /\ index' = index + 1
  /\ UNCHANGED <<options_, names_, argv, pc, result, before, theOption, called, reparsed>>

\* Loop body, argv[index] is not a registered name.
ParseInvalid ==
  /\ pc = "scan" /\ index < argc
  /\ ~hasOption(Arg(index))
  /\ Fail(Throw("ParsingError", "Invalid arguments provided!"))
  /\ UNCHANGED <<options_, names_, argv, index, before, theOption, called, reparsed>>

\* Loop body, hasFlag(argv[index]) reaches getOption on a name whose
\* reference name has no entry in options_.
ParseLookupFails ==
  /\ pc = "scan" /\ index < argc
  /\ hasOption(Arg(index)) /\ LookupThrows(Arg(index))
  /\ Fail(Throw("std::out_of_range", "at"))
  /\ UNCHANGED <<options_, names_, argv, index, before, theOption, called, reparsed>>

\* FlagArgument that ignores the default value.
FlagArgument_AlwaysTrue(opt) == Ok(AnyBool(TRUE))

\* FlagArgument that negates the value the flag holds, when it holds one.
FlagArgument_Toggles(opt) ==
  IF hasValue(opt) THEN Ok(AnyBool(opt.value_.v[1] # "true"))
  ELSE IF hasDefaultValue(opt)
  THEN LET d == getDefaultValue(opt, "bool") IN
    IF ~d.ok THEN d ELSE Ok(AnyBool(d.val.v[1] # "true"))
  ELSE Ok(AnyBool(TRUE))

\* The value Parser::parseFlag hands to setValue.
FlagArgument(opt) ==
  IF hasDefaultValue(opt)
  THEN LET d == getDefaultValue(opt, "bool") IN
    IF ~d.ok THEN d ELSE Ok(AnyBool(d.val.v[1] # "true"))
  ELSE Ok(AnyBool(TRUE))

\* Parser::parseFlag: the option afterwards and the outcome.
parseFlag(flag_name) ==
  LET opt == getOption(flag_name)
      a == FlagArgument(opt)
  IN IF ~a.ok THEN [opt |-> opt, out |-> a] ELSE setValue(opt, a.val)

\* parseSingle without the check that the next token is a registered name.
parseSingle_NoNameCheck(arguments, i) ==
  LET opt == getOption(arguments[i + 1]) IN
  IF i + 1 >= Len(arguments)
  THEN [opt |-> opt, ret |-> 0,
        out |-> Throw("ParsingError",
                      "After the " \o arguments[i + 1] \o
                        " option should be an extra argument!")]
  ELSE [ret |-> 1] @@ setValue(opt, AnyString(arguments[i + 2]))

\* Parser::parseSingle: the option afterwards, the outcome and the count
\* returned.
parseSingle(arguments, i) ==
  LET opt == getOption(arguments[i + 1]) IN
  IF i + 1 >= Len(arguments) \/ hasOption(arguments[i + 2])
  THEN [opt |-> opt, ret |-> 0,
        out |-> Throw("ParsingError",
                      "After the " \o arguments[i + 1] \o
                        " option should be an extra argument!")]
  ELSE [ret |-> 1] @@ setValue(opt, AnyString(arguments[i + 2]))

\* CompoundEnd that runs to the end of the input, registered names included.
CompoundEnd_ToEnd(arguments, local_index) == Len(arguments)

\* The while loop of Parser::parseCompound: the final local_index.
RECURSIVE CompoundEnd(_, _)
CompoundEnd(arguments, local_index) ==
  IF local_index < Len(arguments) /\ ~hasOption(arguments[local_index + 1])
  THEN CompoundEnd(arguments, local_index + 1)
  ELSE local_index

\* parseCompound that accepts an empty run.
parseCompound_AllowsEmpty(arguments, i) ==
  LET opt == getOption(arguments[i + 1])
      local_index == CompoundEnd(arguments, i + 1)
      values == SubSeq(arguments, i + 2, local_index)
  IN [ret |-> local_index - i - 1] @@ setValue(opt, AnyStrings(values))

\* parseCompound that adds the run to the values the option holds.
parseCompound_Appends(arguments, i) ==
  LET opt == getOption(arguments[i + 1])
      local_index == CompoundEnd(arguments, i + 1)
      values == SubSeq(arguments, i + 2, local_index)
  IN
  IF local_index = i + 1
  THEN [opt |-> opt, ret |-> 0,
        out |-> Throw("ParsingError",
                      "After the " \o arguments[i + 1] \o
                        " option should be at least an extra argument!")]
  ELSE [ret |-> local_index - i - 1] @@
         setValue(opt, AnyStrings(opt.value_.v \o values))

\* Parser::parseCompound: the option afterwards, the outcome and the count
\* returned.
parseCompound(arguments, i) ==
  LET opt == getOption(arguments[i + 1])
      local_index == CompoundEnd(arguments, i + 1)
      values == SubSeq(arguments, i + 2, local_index)
  IN
  IF local_index = i + 1
  THEN [opt |-> opt, ret |-> 0,
        out |-> Throw("ParsingError",
                      "After the " \o arguments[i + 1] \o
                        " option should be at least an extra argument!")]
  ELSE [ret |-> local_index - i - 1] @@ setValue(opt, AnyStrings(values))

\* Advance without the ++index of the loop.
Advance_NoIncrement(r, ret) ==
  /\ options_' = [options_ EXCEPT ![names_[Arg(index)]] = r.opt]
  /\ IF r.out.ok
     THEN /\ index' = index + ret
          /\ UNCHANGED <<pc, result>>
     ELSE /\ Fail(r.out)
          /\ UNCHANGED index
  /\ UNCHANGED <<names_, argv, before, theOption, called, reparsed>>

\* One iteration of the loop of Parser::parse on the option r.opt: stores
\* the option, then either leaves with the exception or advances the index
\* by what the individual parser returned plus the ++index of the loop.
Advance(r, ret) ==
  /\ options_' = [options_ EXCEPT ![names_[Arg(index)]] = r.opt]
  /\ IF r.out.ok
     THEN /\ index' = index + ret + 1
          /\ UNCHANGED <<pc, result>>
     ELSE /\ Fail(r.out)
          /\ UNCHANGED index
  /\ UNCHANGED <<names_, argv, before, theOption, called, reparsed>>

ParseFlag ==
  /\ pc = "scan" /\ index < argc
  /\ ~LookupThrows(Arg(index)) /\ hasFlag(Arg(index))
  /\ Advance(parseFlag(Arg(index)), 0)

ParseSingle ==
  /\ pc = "scan" /\ index < argc
  /\ ~LookupThrows(Arg(index)) /\ hasSingle(Arg(index))
  /\ LET r == parseSingle(argv, index) IN Advance(r, r.ret)

ParseCompound ==
  /\ pc = "scan" /\ index < argc
  /\ ~LookupThrows(Arg(index)) /\ hasCompound(Arg(index))
  /\ LET r == parseCompound(argv, index) IN Advance(r, r.ret)

\* checkHelpOption with the test of the help value inverted.
checkHelpOption_Inverted ==
  IF ~hasOption("-h") THEN Ok(NoAny)
  ELSE LET r == ParserGetValue("-h", "bool") IN
    IF ~r.ok THEN r
    ELSE IF r.val.v[1] # "true" THEN Throw("ParsingError", usage)
    ELSE Ok(NoAny)

\* Parser::checkHelpOption, reached when the loop is left.
checkHelpOption ==
  IF ~hasOption("-h") THEN Ok(NoAny)
  ELSE LET r == ParserGetValue("-h", "bool") IN
    IF ~r.ok THEN r
    ELSE IF r.val.v[1] = "true" THEN Throw("ParsingError", usage)
    ELSE Ok(NoAny)

CheckHelpOption ==
  /\ pc = "scan" /\ index >= argc
  /\ IF checkHelpOption.ok
     THEN pc' = "missing" /\ UNCHANGED result
     ELSE Fail(checkHelpOption)
  /\ UNCHANGED <<options_, names_, argv, index, before, theOption, called, reparsed>>

\* Missing that does not look at the value.
Missing_IgnoresValue(opt) == isRequired(opt) /\ ~hasDefaultValue(opt)

\* The test of Parser::checkMissingOptions on one option.
Missing(opt) == isRequired(opt) /\ ~hasValue(opt) /\ ~hasDefaultValue(opt)

\* Parser::checkMissingOptions: the outcomes the loop over options_ can
\* have.  It throws at the first missing option it meets, and the order of
\* the unordered_map is unspecified: any missing option can be the one named.
checkMissingOptions ==
  LET missing == {key \in DOMAIN options_ : Missing(options_[key])} IN
  IF missing = {} THEN {Ok(NoAny)}
  ELSE {Throw("ParsingError", "Missing option " \o options_[key].names_[1]) :
          key \in missing}

CheckMissingOptions ==
  /\ pc = "missing"
  /\ \E out \in checkMissingOptions :
       IF out.ok THEN pc' = "done" /\ UNCHANGED result ELSE Fail(out)
  /\ UNCHANGED <<options_, names_, argv, index, before, theOption, called, reparsed>>

Next ==
  \/ AddOption
  \/ AddHelpOption
  \/ Parse
  \/ ParseInvalid
  \/ ParseLookupFails
  \/ ParseFlag
  \/ ParseSingle
  \/ ParseCompound
  \/ CheckHelpOption
  \/ CheckMissingOptions

Spec == Init /\ [][Next]_vars

\* The steps of a running Parser::parse call.
Parsing ==
  \/ ParseInvalid
  \/ ParseLookupFails
  \/ ParseFlag
  \/ ParseSingle
  \/ ParseCompound
  \/ CheckHelpOption
  \/ CheckMissingOptions

\* ------------------ Repeated options, repeated parses ------------------ \*

RepeatTokens == {"-f", "--flag", "-s", "-c", "a", "b"}

\* Some option name occurs twice in s, or two names the catalogue gives to
\* one option both occur.
Repeats(s) ==
  \E i, j \in DOMAIN s :
    /\ i < j
    /\ \/ s[i] = s[j] /\ s[i] \in {"-f", "--flag", "-s", "-c"}
       \/ {s[i], s[j]} \in {{"-f", "--flag"}, {"-c", "--flag"}}

\* The argument vectors of up to MaxArgs + 1 tokens that repeat an option.
RepeatedArgvs ==
  {<<"prog">> \o s :
     s \in {t \in SeqsUpTo(RepeatTokens, MaxArgs + 1) : Repeats(t)}}

\* Parser::parse up to the loop, on arguments that repeat an option.
ParseRepeated ==
  /\ pc = "config"
  /\ \E a \in RepeatedArgvs : argv' = a
  /\ index' = 1
  /\ pc' = "scan"
  /\ result' = Ok(NoAny)
  /\ before' = options_
  /\ UNCHANGED <<options_, names_, theOption, called, reparsed>>

RepeatedNext ==
  \/ AddOption
  \/ AddHelpOption
  \/ ParseRepeated
  \/ Parsing

Repeated == Init /\ [][RepeatedNext]_vars

\* Parser::parse up to the loop, called again with the arguments of the
\* call that has just returned: the options keep what that call stored.
Reparse ==
  /\ pc = "done"
  /\ index' = 1
  /\ pc' = "scan"
  /\ result' = Ok(NoAny)
  /\ before' = options_
  /\ reparsed' = TRUE
  /\ UNCHANGED <<options_, names_, argv, theOption, called>>

Reparsed == Init /\ [][Next \/ Reparse]_vars

\* ------------------------ An option on its own ------------------------ \*

\* The values handed to setValue and addDefaultValue.
Values == {AnyString("b"), AnyString("4"), AnyInt("4"), AnyInt("8")}

\* The constraints handed to addConstraint.
Constraints ==
  { [call_ |-> "notB", error_message_ |-> ""],
    [call_ |-> "lt10", error_message_ |-> "Value must be lower than 10"],
    [call_ |-> "isZero", error_message_ |-> "Value must be 0"] }

\* The transformation a subclass offers: SingleOption::toInt, or doubles()
\* of the subclass the unit test derives from MockOption.
Offered(opt) == IF isSingle(opt) THEN "stoi" ELSE "doubles"

parser == <<options_, names_, argv, index, pc, before, reparsed>>

OptionInit ==
  /\ options_ = EmptyMap
  /\ names_ = EmptyMap
  /\ argv = <<>>
  /\ index = 0
  /\ pc = "option"
  /\ result = Ok(NoAny)
  /\ before = EmptyMap
  /\ theOption \in {MockOption(<<"name">>), SingleOption(<<"-s">>)}
  /\ called = Call("BaseOption", NoAny)
  /\ reparsed = FALSE

\* A call that returns *this: it cannot fail.
Returns(op, arg, opt) ==
  /\ theOption' = opt
  /\ called' = Call(op, arg)
  /\ result' = Ok(NoAny)

AddDefaultValue ==
  /\ pc = "option"
  /\ \E a \in Values :
       Returns("addDefaultValue", a, addDefaultValue(theOption, a))
  /\ UNCHANGED parser

BeRequired ==
  /\ pc = "option"
  /\ \E required \in BOOLEAN :
       Returns("beRequired", AnyBool(required),
               beRequired(theOption, required))
  /\ UNCHANGED parser

AddDescription ==
  /\ pc = "option"
  /\ Returns("addDescription", AnyString("text"),
             addDescription(theOption, "text"))
  /\ UNCHANGED parser

AddConstraint ==
  /\ pc = "option"
  /\ Len(theOption.constraints_) < MaxConstraints
  /\ \E c \in Constraints :
       Returns("addConstraint", c,
               addConstraint(theOption, c.call_, c.error_message_))
  /\ UNCHANGED parser

To ==
  /\ pc = "option"
  /\ Returns("to", AnyString(Offered(theOption)),
             to(theOption, Offered(theOption)))
  /\ UNCHANGED parser

TransformBeforeCheck ==
  /\ pc = "option"
  /\ Returns("transformBeforeCheck", NoAny, transformBeforeCheck(theOption))
  /\ UNCHANGED parser

SetValue ==
  /\ pc = "option"
  /\ \E a \in Values :
       LET r == setValue(theOption, a) IN
       /\ theOption' = r.opt
       /\ called' = Call("setValue", a)
       /\ result' = r.out
  /\ UNCHANGED parser

OptionNext ==
  \/ AddDefaultValue
  \/ BeRequired
  \/ AddDescription
  \/ AddConstraint
  \/ To
  \/ TransformBeforeCheck
  \/ SetValue

OptionSpec == OptionInit /\ [][OptionNext]_vars

\* A parser, or an option on its own.
Both == (Init \/ OptionInit) /\ [][Next \/ OptionNext]_vars

\* -------------------- The typed BaseOption<VT, TT> --------------------- \*

\* ::toupper over every character of the strings handed to the option.
Upper(s) ==
  CASE s = "lowercase" -> "LOWERCASE" [] s = "b" -> "B" [] OTHER -> s

\* The std::function<VT(TT)> held in transformation_: uppercase() and
\* doubles() (std::stoi(value) * 2) of the unit tests.
CallTransformationT(t, a) ==
  CASE t = "uppercase" -> Ok(AnyString(Upper(a.v[1])))
    [] t = "doubles" ->
         IF IsNumeral(a.v[1]) THEN Ok(AnyInt(Numeral(2 * Number(a.v[1]))))
         ELSE Throw("std::invalid_argument", "stoi")
    [] OTHER -> Ok(a)

\* BaseOption<VT, TT>(names): value_ and default_value_ are read only behind
\* has_value_ and has_default_value_.
BaseOptionT(VT, TT, names) ==
  [VT |-> VT, TT |-> TT, names_ |-> names, description_ |-> "",
   required_ |-> TRUE, value_ |-> NoAny, default_value_ |-> NoAny,
   has_value_ |-> FALSE, has_default_value_ |-> FALSE,
   transformation_ |-> "nullptr", constraints_ |-> <<>>,
   constraints_before_transformation_ |-> <<>>, argument_name_ |-> ""]

beRequiredT(opt, required) == [opt EXCEPT !.required_ = required]

addDefaultValueT(opt, a) ==
  beRequiredT(
    [opt EXCEPT !.default_value_ = a, !.has_default_value_ = TRUE], FALSE)

addDescriptionT(opt, d) == [opt EXCEPT !.description_ = d]

\* addConstraint<T>: T is VT or TT; a constraint on VT joins constraints_,
\* any other one constraints_before_transformation_.
addConstraintT(opt, T, call, msg) ==
  IF T = opt.VT
  THEN [opt EXCEPT !.constraints_ =
          Append(@, [call_ |-> call, error_message_ |-> msg])]
  ELSE [opt EXCEPT !.constraints_before_transformation_ =
          Append(@, [call_ |-> call, error_message_ |-> msg])]

addTransformationT(opt, t) == [opt EXCEPT !.transformation_ = t]

getDefaultValueT(opt) ==
  IF ~opt.has_default_value_
  THEN Throw("std::invalid_argument", "No default value")
  ELSE Ok(opt.default_value_)

getValueT(opt) ==
  IF ~opt.has_value_ THEN getDefaultValueT(opt) ELSE Ok(opt.value_)

\* The loop of BaseOption<VT, TT>::checkConstraints from position i.
RECURSIVE checkConstraintsT(_, _, _)
checkConstraintsT(a, constraints, i) ==
  IF i > Len(constraints) THEN Ok(NoAny)
  ELSE IF ~Predicate(constraints[i].call_, a)
    THEN Throw("ParsingError",
               IF constraints[i].error_message_ = ""
               THEN "Constraint not satisfied."
               ELSE constraints[i].error_message_)
    ELSE checkConstraintsT(a, constraints, i + 1)

\* The tail of setValue once value_ is assigned.
StoredT(opt, value) ==
  LET assigned == [opt EXCEPT !.value_ = value]
      c == checkConstraintsT(value, opt.constraints_, 1)
  IN IF ~c.ok THEN [opt |-> assigned, out |-> c]
     ELSE [opt |-> [assigned EXCEPT !.has_value_ = TRUE], out |-> Ok(NoAny)]

\* setValueT that routes the input through the transformation also when
\* VT and TT are the same type.
setValueT_AlwaysTransforms(opt, a) ==
  IF opt.transformation_ # "nullptr"
  THEN LET b == IF opt.VT = opt.TT THEN Ok(NoAny)
                ELSE checkConstraintsT(
                       a, opt.constraints_before_transformation_, 1)
       IN
    IF ~b.ok THEN [opt |-> opt, out |-> b]
    ELSE LET r == CallTransformationT(opt.transformation_, a) IN
      IF ~r.ok THEN [opt |-> opt, out |-> r] ELSE StoredT(opt, r.val)
  ELSE IF opt.VT = opt.TT THEN StoredT(opt, a)
  ELSE [opt |-> opt,
        out |-> Throw("std::invalid_argument",
                      "No transformation function provided.")]

\* BaseOption<VT, TT>::setValue: the option afterwards and the outcome.
setValueT(opt, a) ==
  IF opt.VT = opt.TT THEN StoredT(opt, a)
  ELSE IF opt.transformation_ # "nullptr"
  THEN LET b == checkConstraintsT(
                  a, opt.constraints_before_transformation_, 1)
       IN
    IF ~b.ok THEN [opt |-> opt, out |-> b]
    ELSE LET r == CallTransformationT(opt.transformation_, a) IN
      IF ~r.ok THEN [opt |-> opt, out |-> r] ELSE StoredT(opt, r.val)
  ELSE [opt |-> opt,
        out |-> Throw("std::invalid_argument",
                      "No transformation function provided.")]

\* The values of a type handed to the typed option.
ValuesT(T) ==
  IF T = "string"
  THEN {AnyString("lowercase"), AnyString("b"), AnyString("4"),
        AnyString("8")}
  ELSE {AnyInt("4"), AnyInt("0")}

\* The transformation the subclass of the unit test offers.
OfferedT(opt) == IF opt.VT = "string" THEN "uppercase" ELSE "doubles"

\* MockOption<std::string>("name") or MockOption<int, std::string>("name").
TypedInit ==
  /\ options_ = EmptyMap
  /\ names_ = EmptyMap
  /\ argv = <<>>
  /\ index = 0
  /\ pc = "typed"
  /\ result = Ok(NoAny)
  /\ before = EmptyMap
  /\ theOption \in {BaseOptionT("string", "string", <<"name">>),
                    BaseOptionT("int", "string", <<"name">>)}
  /\ called = Call("BaseOption", NoAny)
  /\ reparsed = FALSE

AddDefaultValueT ==
  /\ pc = "typed"
  /\ \E a \in ValuesT(theOption.VT) :
       Returns("addDefaultValue", a, addDefaultValueT(theOption, a))
  /\ UNCHANGED parser

BeRequiredT ==
  /\ pc = "typed"
  /\ \E required \in BOOLEAN :
       Returns("beRequired", AnyBool(required),
               beRequiredT(theOption, required))
  /\ UNCHANGED parser

AddDescriptionT ==
  /\ pc = "typed"
  /\ Returns("addDescription", AnyString("text"),
             addDescriptionT(theOption, "text"))
  /\ UNCHANGED parser

AddConstraintT ==
  /\ pc = "typed"
  /\ Len(theOption.constraints_) +
       Len(theOption.constraints_before_transformation_) < MaxConstraints
  /\ \E c \in Constraints :
       /\ ConstraintType(c.call_) \in {theOption.VT, theOption.TT}
       /\ Returns("addConstraint", c,
                  addConstraintT(theOption, ConstraintType(c.call_),
                                 c.call_, c.error_message_))
  /\ UNCHANGED parser

AddTransformationT ==
  /\ pc = "typed"
  /\ Returns("addTransformation", AnyString(OfferedT(theOption)),
             addTransformationT(theOption, OfferedT(theOption)))
  /\ UNCHANGED parser

SetValueT ==
  /\ pc = "typed"
  /\ \E a \in ValuesT(theOption.TT) :
       LET r == setValueT(theOption, a) IN
       /\ theOption' = r.opt
       /\ called' = Call("setValue", a)
       /\ result' = r.out
  /\ UNCHANGED parser

TypedNext ==
  \/ AddDefaultValueT
  \/ BeRequiredT
  \/ AddDescriptionT
  \/ AddConstraintT
  \/ AddTransformationT
  \/ SetValueT

\* An option of either design on its own.
Options == (OptionInit \/ TypedInit) /\ [][OptionNext \/ TypedNext]_vars

\* A parser, or an option of either design on its own.
All ==
  (Init \/ OptionInit \/ TypedInit) /\ [][Next \/ OptionNext \/ TypedNext]_vars

TypeOK ==
  /\ pc \in {"config", "scan", "missing", "done", "failed", "option",
            "typed"}
  /\ DOMAIN options_ \subseteq DOMAIN names_
  /\ \A name \in DOMAIN names_ : names_[name] \in DOMAIN names_

\* ------------------------- Shared vocabulary -------------------------- \*

Names(opt) == {opt.names_[i] : i \in DOMAIN opt.names_}

\* name resolves to an option of the given kind.
ResolvesTo(name, kind) ==
  /\ name \in DOMAIN names_
  /\ names_[name] \in DOMAIN options_
  /\ options_[names_[name]].kind = kind

\* Some token after the program name is a name of opt.
OccursInArgv(opt) == \E i \in 1..(argc - 1) : Arg(i) \in Names(opt)

\* The C++ type a transformation returns.
ResultType(t) ==
  CASE t = "toInt" -> "int" [] t = "toGreeting" -> "string"
    [] t \in {"stoi", "doubles"} -> "int" [] OTHER -> "bool"

Not(a) == AnyBool(a.v[1] # "true")

\* ------------------------------- Claims -------------------------------- \*

\* C1: on a Compound name at index i the parser takes the maximal run
\* argv[i+1..j) of tokens that are not registered names (j is the end of the
\* input or the first registered name), stores exactly that run, in order,
\* as the option's value and resumes scanning at j; an empty run fails with
\* "After the <token> option should be at least an extra argument!".
C1_CompoundGreedyRun ==
  [][(pc = "scan" /\ index < argc /\ ResolvesTo(Arg(index), "compound")) =>
       \E j \in (index + 1)..argc :
         /\ \A k \in (index + 1)..(j - 1) : Arg(k) \notin DOMAIN names_
         /\ j < argc => Arg(j) \in DOMAIN names_
         /\ IF j = index + 1
            THEN /\ pc' = "failed"
                 /\ result' =
                      Throw("ParsingError",
                            "After the " \o Arg(index) \o
                              " option should be at least an extra argument!")
                 /\ options_' = options_
            ELSE /\ pc' = "scan"
                 /\ index' = j
                 /\ options_'[names_[Arg(index)]].value_ =
                      AnyStrings([k \in 1..(j - index - 1) |-> Arg(index + k)])
                 /\ \A o \in DOMAIN options_ \ {names_[Arg(index)]} :
                      options_'[o] = options_[o]
    ]_vars

\* C1 witness: a run of one token was stored and the registered flag name
\* that ended the run was parsed as its own option.
C1_Witness ==
  /\ pc = "done" /\ argc = 4
  /\ ResolvesTo(Arg(1), "compound") /\ ResolvesTo(Arg(3), "flag")
  /\ Arg(2) \notin DOMAIN names_
  /\ getOption(Arg(1)).value_ = AnyStrings(<<Arg(2)>>)
  /\ hasValue(getOption(Arg(3)))

C3_FlagNegation ==
  pc = "done" =>
    \A key \in DOMAIN options_ :
      LET opt == options_[key] IN
      (isFlag(opt) /\ opt.transformation_ = "nullptr") =>
        \A name \in Names(opt) :
          /\ OccursInArgv(opt) =>
               ParserGetValue(name, "bool") =
                 Ok(IF hasDefaultValue(opt) THEN Not(opt.default_value_)
                    ELSE AnyBool(TRUE))
          /\ (~OccursInArgv(opt) /\ hasDefaultValue(opt)) =>
               ParserGetValue(name, "bool") = Ok(opt.default_value_)

\* C3 witness: a flag with default true was given and reads false.
C3_Witness ==
  /\ pc = "done"
  /\ \E key \in DOMAIN options_ :
       /\ isFlag(options_[key]) /\ options_[key].transformation_ = "nullptr"
       /\ options_[key].default_value_ = AnyBool(TRUE)
       /\ OccursInArgv(options_[key])
       /\ ParserGetValue("--flag", "bool") = Ok(AnyBool(FALSE))

\* C4: once the scan and the help check are passed, parse fails with
\* "Missing option " and the first name of an option that is required and
\* has neither value nor default when there is such an option, and returns
\* normally when there is none.
C4_MissingOptions ==
  [][pc = "missing" =>
       LET missing == {key \in DOMAIN options_ :
                         /\ options_[key].required_
                         /\ options_[key].value_ = NoAny
                         /\ options_[key].default_value_ = NoAny}
       IN IF missing = {}
          THEN pc' = "done" /\ result' = result
          ELSE /\ pc' = "failed"
               /\ \E key \in missing :
                    result' = Throw("ParsingError",
                                    "Missing option " \o
                                      options_[key].names_[1])
    ]_vars

\* C4 witness: two options are missing and the parse failed naming one.
C4_Witness ==
  /\ pc = "failed" /\ index >= argc
  /\ Cardinality({key \in DOMAIN options_ : Missing(options_[key])}) = 2
  /\ \E key \in DOMAIN options_ : result.msg = "Missing option " \o key

\* C5: an addOption call that fails leaves the registry as it was: the
\* same registered names, each resolving to the same option.
C5_FailedAddLeavesRegistry ==
  [][(pc = "config" /\ pc' = "config" /\ ~result'.ok) =>
       (names_' = names_ /\ options_' = options_)]_vars

\* The help option of addHelpOption is registered under both its names.
HelpRegistered ==
  /\ "-h" \in DOMAIN options_
  /\ options_["-h"].names_ = <<"-h", "--help">>
  /\ isFlag(options_["-h"])
  /\ options_["-h"].default_value_ = AnyBool(FALSE)

HelpInArgv == \E i \in 1..(argc - 1) : Arg(i) \in {"-h", "--help"}

C7_FailedParseChangesNothing ==
  pc = "failed" =>
    \A key \in DOMAIN options_ : options_[key].value_ = before[key].value_

\* C8: a Flag with default d and transformation t reads t(d) after a parse
\* in which it does not occur; a parse in which it occurs does not fail on
\* it, and once its name is scanned it reads t(not d).
C8_TransformedFlag ==
  \A key \in DOMAIN options_ :
    LET opt == options_[key]
        T == ResultType(opt.transformation_)
    IN
    (isFlag(opt) /\ hasDefaultValue(opt) /\ opt.transformation_ # "nullptr") =>
      /\ (pc = "done" /\ ~OccursInArgv(opt)) =>
           getValue(opt, T) =
             CallTransformation(opt.transformation_, opt.default_value_)
      /\ (pc = "failed" /\ index < argc) => Arg(index) \notin Names(opt)
      /\ (pc \in {"scan", "missing", "done"} /\
          \E i \in 1..(index - 1) : i < argc /\ Arg(i) \in Names(opt)) =>
           getValue(opt, T) =
             CallTransformation(opt.transformation_, Not(opt.default_value_))

\* C9: every failure of parse is a ParsingError.
C9_OnlyParsingError ==
  pc = "failed" => result.err = "ParsingError"

\* The types getValue<T> is asked for.
Types == {"bool", "string", "vector<string>", "int"}

\* C10: every name of one option gives the same outcome of Parser::getValue
\* as its first name, for every type asked for, in every state.
C10_AliasesAgree ==
  \A key \in DOMAIN options_ :
    \A T \in Types :
      LET first == ParserGetValue(options_[key].names_[1], T) IN
      \A name \in Names(options_[key]) \ {options_[key].names_[1]} :
        ParserGetValue(name, T) = first

\* C10 witness: the flag was given as "--flag" and both names read true.
C10_Witness ==
  /\ pc = "done" /\ argv = <<"prog", "--flag">>
  /\ ResolvesTo("-f", "flag")
  /\ ParserGetValue("-f", "bool") = Ok(AnyBool(TRUE))
  /\ ParserGetValue("--flag", "bool") = Ok(AnyBool(TRUE))

\* C11: in every state of an option reached by addDefaultValue, beRequired,
\* addDescription, addConstraint and setValue calls, an option that has a
\* default value is not required.
C11_DefaultImpliesOptional ==
  hasDefaultValue(theOption) => ~isRequired(theOption)

\* C11 as amended: every addDefaultValue call leaves the option not
\* required, and no call other than beRequired and addDefaultValue changes
\* whether it is required; an option with a default is required only after
\* a beRequired(true).
C11_DefaultOptionalUntilRequired ==
  [][/\ called'.op = "addDefaultValue" =>
          (hasDefaultValue(theOption') /\ ~isRequired(theOption'))
     /\ called'.op \notin {"addDefaultValue", "beRequired"} =>
          isRequired(theOption') = isRequired(theOption)
     /\ (hasDefaultValue(theOption') /\ isRequired(theOption') /\
         ~(hasDefaultValue(theOption) /\ isRequired(theOption))) =>
          called' = Call("beRequired", AnyBool(TRUE))
    ]_vars

\* C11 witness: a default was added to an option with a value and a
\* constraint, and it is not required.
C11_Witness ==
  /\ called.op = "addDefaultValue"
  /\ hasDefaultValue(theOption) /\ ~isRequired(theOption)
  /\ hasValue(theOption) /\ theOption.constraints_ # <<>>

\* C12: in every state of the configuration, addOption of any option
\* fails with std::invalid_argument "Option already exists!" exactly when a
\* name of the option is already in the parser's names (a name the option
\* itself lists twice counts); otherwise it leaves every name of the option
\* registered and resolving to the option.
C12_AddOptionFailsIffClash ==
  pc = "config" =>
    \A new \in Catalogue \cup {HelpOption} :
      LET r == addOption(new)
          clash ==
            \E i \in DOMAIN new.names_ :
              \/ new.names_[i] \in DOMAIN names_
              \/ \E j \in 1..(i - 1) : new.names_[j] = new.names_[i]
      IN IF clash
         THEN r.out = Throw("std::invalid_argument", "Option already exists!")
         ELSE /\ r.out.ok
              /\ \A name \in Names(new) :
                   /\ name \in DOMAIN r.names_
                   /\ r.names_[name] \in DOMAIN r.options_
                   /\ r.options_[r.names_[name]] = new

\* C12 witness: a second option was added under two names, both resolving
\* to it, next to an option of another kind; adding it again would fail.
C12_Witness ==
  /\ pc = "config" /\ result.ok
  /\ "-s" \in DOMAIN options_ /\ "-c" \in DOMAIN options_
  /\ options_["-c"].names_ = <<"-c", "--flag">>
  /\ names_["--flag"] = "-c"
  /\ ~addOption(options_["-c"]).out.ok

InvalidArguments == Throw("ParsingError", "Invalid arguments provided!")

\* C13: a step of the scan fails with ParsingError "Invalid arguments
\* provided!" exactly when the token at the top of the loop is not a
\* registered name, and no other step of parse fails that way; a parser
\* without options fails so on every argv with an argument and succeeds on
\* the bare program name.
C13_InvalidToken ==
  [][/\ (pc = "scan" /\ index < argc) =>
          ((Arg(index) \notin DOMAIN names_) <=>
             (pc' = "failed" /\ result' = InvalidArguments))
     /\ (pc # "failed" /\ pc' = "failed" /\ result' = InvalidArguments) =>
          (pc = "scan" /\ index < argc /\ Arg(index) \notin DOMAIN names_)
     /\ (pc = "scan" /\ DOMAIN names_ = {}) =>
          IF argc = 1 THEN pc' = "missing"
          ELSE pc' = "failed" /\ result' = InvalidArguments
     /\ (pc = "missing" /\ DOMAIN names_ = {}) => pc' = "done"
    ]_vars

\* C13 witness: the payload of a Single option was passed over and the
\* unregistered token after it failed the parse.
C13_Witness ==
  /\ pc = "failed" /\ result = InvalidArguments
  /\ argc = 4 /\ index = 3
  /\ ResolvesTo(Arg(1), "single")
  /\ Arg(2) \notin DOMAIN names_ /\ Arg(3) \notin DOMAIN names_

\* The value a satisfies the constraint c: c is callable on it and true.
Satisfies(a, c) ==
  a.type = ConstraintType(c.call_) /\ Predicate(c.call_, a)

SatisfiesAll(a, opt) ==
  \A i \in DOMAIN opt.constraints_ : Satisfies(a, opt.constraints_[i])

\* C14: for a Single option without transformation and a string s that
\* satisfies all its constraints, setValue(s) succeeds, the option has a
\* value and getValue<string>() returns s; and after a successful parse of
\* ["prog", name, s], s not a registered name, Parser::getValue<string>
\* (name) returns s.
C14_RoundTrip ==
  [][/\ (/\ pc = "option" /\ called'.op = "setValue"
          /\ isSingle(theOption) /\ theOption.transformation_ = "nullptr"
          /\ called'.arg.type = "string"
          /\ SatisfiesAll(called'.arg, theOption)) =>
          /\ result'.ok
          /\ hasValue(theOption')
          /\ getValue(theOption', "string") = Ok(called'.arg)
     /\ (/\ pc = "missing" /\ pc' = "done" /\ argc = 3
         /\ ResolvesTo(Arg(1), "single")
         /\ getOption(Arg(1)).transformation_ = "nullptr"
         /\ Arg(2) \notin DOMAIN names_) =>
          \A name \in Names(getOption(Arg(1))) :
            ParserGetValue(name, "string")' = Ok(AnyString(Arg(2)))
    ]_vars

\* C14 witness: a Single option with a default and a constraint was set to
\* "4" and reads "4".
C14_Witness ==
  /\ pc = "option" /\ called = Call("setValue", AnyString("4"))
  /\ isSingle(theOption) /\ theOption.transformation_ = "nullptr"
  /\ hasDefaultValue(theOption) /\ Len(theOption.constraints_) = 1
  /\ getValue(theOption, "string") = Ok(AnyString("4"))

\* The raw type of an option's value: what parse hands to setValue.
RawType(opt) ==
  CASE isFlag(opt) -> "bool"
    [] isSingle(opt) -> "string"
    [] isCompound(opt) -> "vector<string>"
    [] OTHER -> "none"

\* The effective stored type: the raw type, or the transformation's result
\* type when one is configured.
EffectiveType(opt) ==
  IF opt.transformation_ = "nullptr" THEN RawType(opt)
  ELSE ResultType(opt.transformation_)

\* C15: Parser::getValue<T>(name) on a registered name succeeds only when T
\* is the option's effective stored type; any other T is an error.
C15_TypeMismatch ==
  \A name \in DOMAIN names_ :
    ~LookupThrows(name) =>
      \A T \in Types :
        ParserGetValue(name, T).ok => T = EffectiveType(getOption(name))

\* C16: in every state, before and after parse, Parser::getValue<T>(name)
\* on a name that is not registered fails with ParsingError "The option
\* <name> was not assigned at the parser", for every T.
C16_UnregisteredName ==
  \A name \in Tokens \ DOMAIN names_ :
    LET not_assigned ==
          Throw("ParsingError",
                "The option " \o name \o " was not assigned at the parser")
    IN \A T \in Types : ParserGetValue(name, T) = not_assigned

\* C16 witness: after a successful parse with a value stored, a name the
\* parser does not hold fails to read with the quoted message.
C16_Witness ==
  /\ pc = "done" /\ argc > 1
  /\ DOMAIN names_ # {} /\ "-s" \notin DOMAIN names_
  /\ ParserGetValue("-s", "string").msg =
       "The option -s was not assigned at the parser"

\* The option on its own and the options a parser holds.
AllOptions == {theOption} \cup {options_[key] : key \in DOMAIN options_}

NoDefaultValue == Throw("std::invalid_argument", "No default value")

\* C17: an option with neither value nor default fails to read, through
\* getValue and through getDefaultValue, with std::invalid_argument "No
\* default value", whatever type is asked for; an option with a default and
\* no value reads, through getValue, as getDefaultValue does: the default
\* itself when no transformation is configured.
C17_NoValueNoDefault ==
  \A opt \in AllOptions :
    /\ ~hasDefaultValue(opt) =>
         \A T \in Types :
           /\ getDefaultValue(opt, T) = NoDefaultValue
           /\ ~hasValue(opt) => getValue(opt, T) = NoDefaultValue
    /\ (hasDefaultValue(opt) /\ ~hasValue(opt)) =>
         /\ \A T \in Types : getValue(opt, T) = getDefaultValue(opt, T)
         /\ opt.transformation_ = "nullptr" =>
              getValue(opt, opt.default_value_.type) = Ok(opt.default_value_)

\* C17 witness: a setValue that a constraint rejected left the option with
\* neither value nor default, and it fails to read.
C17_Witness ==
  /\ pc = "option" /\ called.op = "setValue" /\ ~result.ok
  /\ ~hasValue(theOption) /\ ~hasDefaultValue(theOption)
  /\ getValue(theOption, "string") = NoDefaultValue

\* The constraint c returns false on the value a.
Fails(a, c) ==
  a.type = ConstraintType(c.call_) /\ ~Predicate(c.call_, a)

\* The value setValue(a) evaluates the constraints of opt against.
Checked(opt, a) ==
  IF opt.transform_before_check_ THEN applyTransformation(opt, a) ELSE Ok(a)

\* C18: when a constraint returns false on the value setValue checks, and
\* the constraints added before it return true, setValue fails with a
\* ParsingError carrying that constraint's message, "Constraint not
\* satisfied." for an empty message; when every constraint returns true,
\* setValue succeeds or fails in the transformation, never on a constraint.
C18_FirstFailingConstraint ==
  [][(pc = "option" /\ called'.op = "setValue") =>
       LET a == called'.arg
           x == Checked(theOption, a)
           cs == theOption.constraints_
       IN x.ok =>
            /\ \A i \in DOMAIN cs :
                 (/\ Fails(x.val, cs[i])
                  /\ \A j \in 1..(i - 1) : Satisfies(x.val, cs[j])) =>
                   result' =
                     Throw("ParsingError",
                           IF cs[i].error_message_ = ""
                           THEN "Constraint not satisfied."
                           ELSE cs[i].error_message_)
            /\ (\A i \in DOMAIN cs : Satisfies(x.val, cs[i])) =>
                 \/ result'.ok
                 \/ /\ ~applyTransformation(theOption, a).ok
                    /\ result' = applyTransformation(theOption, a)
    ]_vars

\* C18 witness: two constraints return false on the value and the failure
\* carries the message of the one added first.
C18_Witness ==
  /\ pc = "option" /\ called = Call("setValue", AnyInt("8"))
  /\ theOption.transformation_ = "doubles"
  /\ theOption.transform_before_check_
  /\ Len(theOption.constraints_) = 2
  /\ theOption.constraints_[1].call_ = "isZero"
  /\ theOption.constraints_[2].call_ = "lt10"
  /\ result = Throw("ParsingError", "Value must be 0")

\* The argument a of setValue, after the transformation of opt or before.
Against(opt, a, after) ==
  IF after THEN applyTransformation(opt, a) ELSE Ok(a)

\* setValue(a) on opt ended with out as a call that evaluated the
\* constraints against x does: with the failure that produced x, with the
\* failure of the first constraint x does not pass, and otherwise with
\* success or the failure of the transformation.
Evaluates(opt, a, x, out) ==
  IF ~x.ok THEN out = x
  ELSE LET c == checkConstraints(opt, x.val) IN
    IF ~c.ok THEN out = c
    ELSE \/ out.ok
         \/ ~applyTransformation(opt, a).ok /\ out = applyTransformation(opt, a)

C20_TransformThenCheck ==
  [][(/\ pc = "option" /\ called'.op = "setValue"
      /\ theOption.transform_before_check_
      /\ theOption.transformation_ # "nullptr") =>
       LET tv == applyTransformation(theOption, called'.arg)
           cs == theOption.constraints_
       IN (/\ tv.ok
           /\ \A i \in DOMAIN cs :
                ConstraintType(cs[i].call_) = tv.val.type) =>
            IF \A i \in DOMAIN cs : Predicate(cs[i].call_, tv.val)
            THEN /\ result'.ok
                 /\ getValue(theOption', tv.val.type) = Ok(tv.val)
            ELSE ~result'.ok /\ result'.err = "ParsingError"
    ]_vars

\* C20 witness: the option doubles, requires "lower than 10" and transforms
\* before the check; setValue(4) stored 8.
C20_Witness ==
  /\ pc = "option" /\ called = Call("setValue", AnyInt("4")) /\ result.ok
  /\ theOption.transformation_ = "doubles"
  /\ theOption.transform_before_check_
  /\ theOption.constraints_ =
       <<[call_ |-> "lt10", error_message_ |-> "Value must be lower than 10"]>>
  /\ getValue(theOption, "int") = Ok(AnyInt("8"))

\* t(a) for the transformation configured on opt, in the design opt is of.
Transformed(opt, a) ==
  IF pc = "typed" THEN CallTransformationT(opt.transformation_, a)
  ELSE CallTransformation(opt.transformation_, a)

ReadAs(T, td) == IF td.ok THEN any_cast(T, td.val) ELSE td

C23_ConstraintsSpareDefault ==
  /\ (pc = "option" /\ called.op = "addDefaultValue") =>
       /\ result.ok
       /\ theOption.default_value_ = called.arg
       /\ \A T \in Types :
            LET d == ReadAs(T, applyTransformation(theOption, called.arg))
            IN /\ getDefaultValue(theOption, T) = d
               /\ ~hasValue(theOption) => getValue(theOption, T) = d
  /\ (pc = "typed" /\ called.op = "addDefaultValue") =>
       /\ result.ok
       /\ getDefaultValueT(theOption) = Ok(called.arg)
       /\ ~theOption.has_value_ => getValueT(theOption) = Ok(called.arg)
  /\ pc \in {"scan", "missing", "done", "failed"} =>
       \A key \in DOMAIN options_ :
         LET opt == options_[key] IN
         (hasDefaultValue(opt) /\ ~OccursInArgv(opt)) =>
           /\ ~hasValue(opt)
           /\ opt.default_value_ = before[key].default_value_
           /\ \A T \in Types :
                getValue(opt, T) =
                  ReadAs(T, applyTransformation(opt, opt.default_value_))
           /\ result # Throw("ParsingError", "Missing option " \o key)

\* C23 witness: a parse without -s succeeded on a parser whose -s has the
\* default "b" and a constraint that rejects "b"; -s reads "b".
C23_Witness ==
  /\ pc = "done" /\ "-s" \in DOMAIN options_
  /\ ~OccursInArgv(options_["-s"])
  /\ options_["-s"].default_value_ = AnyString("b")
  /\ ~checkConstraints(options_["-s"], AnyString("b")).ok
  /\ getValue(options_["-s"], "string") = Ok(AnyString("b"))

\* The steps a running parse has left at most: the tokens not yet stepped
\* over, then the help check, then the completeness check.
Remaining ==
  CASE pc = "scan" -> (argc - index) + 2
    [] pc = "missing" -> 1
    [] OTHER -> 0

\* C24: parse skips token 0, every iteration of its loop either throws or
\* moves the index strictly forward and never past the end, the tokens it
\* steps over being the option name at the index and, right after it, the
\* payload stored in that option (none for a Flag, one for a Single, one or
\* more for a Compound); and a parse ends, normally or with an exception:
\* while it runs it always has a next step, and each step leaves fewer
\* steps to take.
C24_ScanConsumesEachTokenOnce ==
  /\ [][(pc = "config" /\ pc' = "scan") => index' = 1]_vars
  /\ [][(pc = "scan" /\ index < argc) =>
          \/ pc' = "failed" /\ index' = index
          \/ /\ pc' = "scan" /\ index < index' /\ index' <= argc
             /\ Arg(index) \in DOMAIN names_
             /\ LET opt == options_'[names_[Arg(index)]]
                    payload == SubSeq(argv, index + 2, index')
                IN CASE isFlag(opt) -> payload = <<>>
                     [] isSingle(opt) ->
                          Len(payload) = 1 /\ opt.value_ = AnyString(payload[1])
                     [] isCompound(opt) ->
                          Len(payload) >= 1 /\ opt.value_ = AnyStrings(payload)
                     [] OTHER -> FALSE
       ]_vars
  /\ [](pc \in {"scan", "missing", "done"} => (1 <= index /\ index <= argc))
  /\ [](pc \in {"missing", "done"} => index = argc)
  /\ [](pc \in {"scan", "missing"} => ENABLED Parsing)
  /\ [][(pc \in {"scan", "missing"}) =>
          (Remaining' < Remaining /\ Remaining' >= 0)
       ]_vars

\* C24 witness: a parse of four tokens ended normally, the Single at 1 took
\* token 2 and the Flag at 3 took none.
C24_Witness ==
  /\ pc = "done" /\ argc = 4 /\ index = 4
  /\ ResolvesTo(Arg(1), "single") /\ ResolvesTo(Arg(3), "flag")
  /\ getOption(Arg(1)).value_ = AnyString(Arg(2))
  /\ hasValue(getOption(Arg(3)))

\* C25: after any sequence of successful and failed addOption and
\* addHelpOption calls, every name hasOption accepts maps through names_ to
\* a key of options_, so that no lookup by a registered name throws
\* std::out_of_range and parse never meets a registered name without an
\* owning option.
C25_RegistryConsistent ==
  /\ \A name \in DOMAIN names_ : hasOption(name) => ~LookupThrows(name)
  /\ result.err # "std::out_of_range"

\* hasValue() and what getValue reads, for an option of either design.
Readable(opt) ==
  IF pc = "typed" THEN <<opt.has_value_, getValueT(opt)>>
  ELSE <<hasValue(opt), [T \in Types |-> getValue(opt, T)]>>

\* C26: a setValue call that fails with a constraint violation leaves the
\* option as it was: hasValue() and the value getValue() returns are the
\* same after the call as before it, by default, after
\* transformBeforeCheck() and in BaseOption<VT, TT>.
C26_RejectedValueNotStored ==
  [][(/\ pc \in {"option", "typed"} /\ called'.op = "setValue"
      /\ ~result'.ok /\ result'.err = "ParsingError") =>
       Readable(theOption') = Readable(theOption)
    ]_vars

\* C27: after parse returns normally every registered option reads, through
\* Parser::getValue<T> on its names with T its effective type: the parsed
\* value or the default.  That includes an option made optional with
\* beRequired(false) that has no default and was absent from the arguments.
C27_ReadableAfterParse ==
  pc = "done" =>
    \A name \in DOMAIN names_ :
      ~LookupThrows(name) =>
        ParserGetValue(name, EffectiveType(getOption(name))).ok

\* The positions of argv at which a name of the option under key occurs.
OccurrencesOf(key) ==
  {i \in 1..(argc - 1) : Arg(i) \in DOMAIN names_ /\ names_[Arg(i)] = key}

Last(S) == CHOOSE i \in S : \A j \in S : j <= i

\* The tokens after position i up to the next registered name or the end.
RunAfter(i) ==
  LET end == CHOOSE j \in (i + 1)..argc :
               /\ j < argc => Arg(j) \in DOMAIN names_
               /\ \A k \in (i + 1)..(j - 1) : Arg(k) \notin DOMAIN names_
  IN [k \in 1..(end - i - 1) |-> Arg(i + k)]

\* C28: when the names of an option occur more than once among the
\* arguments of a successful parse, its value is that of the last
\* occurrence alone: a Single holds the token after it, a Compound the run
\* after it and nothing of the earlier runs, and a Flag the negation of its
\* default (true without one) however many times it occurred.
C28_LastOccurrenceWins ==
  pc = "done" =>
    \A key \in DOMAIN options_ :
      LET opt == options_[key]
          occurrences == OccurrencesOf(key)
      IN Cardinality(occurrences) >= 2 =>
           CASE isFlag(opt) ->
                  opt.value_ =
                    AnyBool(IF hasDefaultValue(opt)
                            THEN opt.default_value_ # AnyBool(TRUE)
                            ELSE TRUE)
             [] isSingle(opt) ->
                  opt.value_ = AnyString(Arg(Last(occurrences) + 1))
             [] isCompound(opt) ->
                  opt.value_ = AnyStrings(RunAfter(Last(occurrences)))
             [] OTHER -> FALSE

\* C28 witness: -c a --flag b, both names of one Compound, parsed: the
\* option holds the second run only.
C28_Witness ==
  /\ pc = "done" /\ argv = <<"prog", "-c", "a", "--flag", "b">>
  /\ ResolvesTo("-c", "compound") /\ ResolvesTo("--flag", "compound")
  /\ names_["--flag"] = names_["-c"]
  /\ getOption("-c").value_ = AnyStrings(<<"b">>)

\* C29: when parse(argv) has succeeded, a further parse(argv) on the same
\* parser with the same arguments succeeds as well and every registered
\* name reads, as every type, what it read after the first call.
C29_ReparseIdempotent ==
  reparsed =>
    /\ pc # "failed"
    /\ pc = "done" =>
         \A name \in DOMAIN names_ :
           ~LookupThrows(name) =>
             \A T \in Types :
               getValue(getOption(name), T) =
                 getValue(before[names_[name]], T)

\* C29 witness: the second parse of -f with a payload-taking option beside
\* it returned; the flag, default true, reads false as after the first.
C29_Witness ==
  /\ reparsed /\ pc = "done" /\ argc >= 3
  /\ \E key \in DOMAIN options_ :
       /\ isFlag(options_[key]) /\ OccurrencesOf(key) # {}
       /\ options_[key].default_value_ = AnyBool(TRUE)
       /\ getValue(options_[key], "bool") = Ok(AnyBool(FALSE))
       /\ getValue(before[key], "bool") = Ok(AnyBool(FALSE))
  /\ \E key \in DOMAIN options_ :
       ~isFlag(options_[key]) /\ hasValue(options_[key])

\* C30: during and after any parse, successful or failed, the string a
\* Single holds and every element of the list a Compound holds is a token
\* of the arguments that is not a registered name, and the list a Compound
\* holds is not empty.
C30_PayloadHoldsNoName ==
  pc \in {"scan", "missing", "done", "failed"} =>
    \A key \in DOMAIN options_ :
      LET opt == options_[key] IN
      /\ (isSingle(opt) /\ hasValue(opt)) =>
           /\ opt.value_.type = "string"
           /\ opt.value_.v[1] \notin DOMAIN names_
           /\ \E i \in 2..(argc - 1) : Arg(i) = opt.value_.v[1]
      /\ (isCompound(opt) /\ hasValue(opt)) =>
           /\ opt.value_.type = "vector<string>"
           /\ Len(opt.value_.v) >= 1
           /\ \A k \in DOMAIN opt.value_.v :
                /\ opt.value_.v[k] \notin DOMAIN names_
                /\ \E i \in 2..(argc - 1) : Arg(i) = opt.value_.v[k]

\* C30 witness: a parse failed after the Compound at 1 had stored token 2
\* and stopped its run at the registered name at 3.
C30_Witness ==
  /\ pc = "failed" /\ argc = 4
  /\ ResolvesTo(Arg(1), "compound")
  /\ Arg(2) \notin DOMAIN names_ /\ Arg(3) \in DOMAIN names_
  /\ getOption(Arg(1)).value_ = AnyStrings(<<Arg(2)>>)

====
